---- MODULE Spec2Model ----
(***************************************************************************)
(* A model of node-minifier-cli: the ignore resolver (isIgnored), the      *)
(* file processor (processFile), the directory walker                      *)
(* (traverseAndMinifyDirectory) of src/src/minifier.js and the command     *)
(* line action of the CLI script (src/unnamed/part_002).                   *)
(*                                                                         *)
(* Strings are sequences of one-character strings, so that the path and    *)
(* glob functions are computed character by character as Node's `path`     *)
(* module and the minimatch library compute them.  Paths are POSIX paths.  *)
(***************************************************************************)
EXTENDS Integers, Sequences, FiniteSets, TLC

----------------------------------------------------------------------------
(* Strings *)

Last(s) == s[Len(s)]

Front(s) == SubSeq(s, 1, Len(s) - 1)

StartsWith(s, pre) == Len(pre) <= Len(s) /\ SubSeq(s, 1, Len(pre)) = pre

EndsWith(s, suf) ==
    Len(suf) <= Len(s) /\ SubSeq(s, Len(s) - Len(suf) + 1, Len(s)) = suf

\* String.prototype.indexOf for one character, 1-based; 0 when absent.
IndexOf(s, c) ==
    IF \E i \in 1..Len(s) : s[i] = c
    THEN CHOOSE i \in 1..Len(s) : s[i] = c /\ \A j \in 1..(i - 1) : s[j] # c
    ELSE 0

\* String.prototype.lastIndexOf for one character, 1-based; 0 when absent.
LastIndexOf(s, c) ==
    IF \E i \in 1..Len(s) : s[i] = c
    THEN CHOOSE i \in 1..Len(s) : s[i] = c /\ \A j \in (i + 1)..Len(s) : s[j] # c
    ELSE 0

Includes(s, c) == \E i \in 1..Len(s) : s[i] = c

\* String.prototype.split(sep) for a one-character separator: empty pieces are kept.
Split(s, sep) ==
    LET F[k \in 0..Len(s)] ==
            \* the pieces of the suffix of s that starts after position k
            LET rest == SubSeq(s, k + 1, Len(s))
                j == IndexOf(rest, sep)
            IN  IF j = 0 THEN <<rest>>
                ELSE <<SubSeq(rest, 1, j - 1)>> \o F[k + j]
    IN  F[0]

RECURSIVE JoinWith(_, _)
\* Array.prototype.join(sep)
JoinWith(parts, sep) ==
    IF Len(parts) = 0 THEN <<>>
    ELSE IF Len(parts) = 1 THEN parts[1]
    ELSE parts[1] \o sep \o JoinWith(Tail(parts), sep)

\* String.prototype.toLowerCase over the letters the model's names use.
LowerChar(c) ==
    CASE c = "A" -> "a" [] c = "J" -> "j" [] c = "S" -> "s" [] c = "P" -> "p"
      [] OTHER -> c

toLowerCase(s) == [i \in 1..Len(s) |-> LowerChar(s[i])]

\* s.replace(/\\/g, '/')
replaceBackslashes(s) == [i \in 1..Len(s) |-> IF s[i] = "\\" THEN "/" ELSE s[i]]

SelectNonEmpty(parts) == SelectSeq(parts, LAMBDA x : x # <<>>)

----------------------------------------------------------------------------
(* Node's path module (POSIX) *)

isAbsolute(p) == Len(p) > 0 /\ p[1] = "/"

RECURSIVE NormalizeSegments(_, _, _)
\* normalizeString of Node's path: "." and empty segments dropped, ".." pops
\* a segment (kept at the front of a relative path, dropped at the root).
NormalizeSegments(segs, acc, abs) ==
    IF Len(segs) = 0 THEN acc
    ELSE LET h == Head(segs)
             t == Tail(segs)
         IN  IF h = <<>> \/ h = <<".">> THEN NormalizeSegments(t, acc, abs)
             ELSE IF h = <<".", ".">>
                  THEN IF Len(acc) > 0 /\ Last(acc) # <<".", ".">>
                       THEN NormalizeSegments(t, Front(acc), abs)
                       ELSE IF abs THEN NormalizeSegments(t, acc, abs)
                            ELSE NormalizeSegments(t, Append(acc, h), abs)
                  ELSE NormalizeSegments(t, Append(acc, h), abs)

\* The normalized segments of a path.
Segments(p) == NormalizeSegments(Split(p, "/"), <<>>, isAbsolute(p))

\* path.normalize without the trailing-slash preservation (no path the
\* program joins ends in a slash).
pathNormalize(p) ==
    LET body == JoinWith(Segments(p), <<"/">>)
    IN  IF isAbsolute(p) THEN <<"/">> \o body
        ELSE IF body = <<>> THEN <<".">> ELSE body

\* path.join(...parts): the non-empty parts joined by "/" and normalized.
pathJoin(parts) ==
    LET ne == SelectNonEmpty(parts)
    IN  IF Len(ne) = 0 THEN <<".">> ELSE pathNormalize(JoinWith(ne, <<"/">>))

\* path.resolve(from, to) for an absolute `from`.
pathResolve(from, to) ==
    IF isAbsolute(to) THEN pathNormalize(to)
    ELSE pathNormalize(from \o <<"/">> \o to)

RECURSIVE CommonPrefixLen(_, _)
CommonPrefixLen(a, b) ==
    IF Len(a) = 0 \/ Len(b) = 0 \/ Head(a) # Head(b) THEN 0
    ELSE 1 + CommonPrefixLen(Tail(a), Tail(b))

\* path.relative(from, to) for absolute paths.
pathRelative(from, to) ==
    LET f == Segments(from)
        t == Segments(to)
        n == CommonPrefixLen(f, t)
        ups == [i \in 1..(Len(f) - n) |-> <<".", ".">>]
    IN  JoinWith(ups \o SubSeq(t, n + 1, Len(t)), <<"/">>)

\* The path without its trailing slashes (the root stays "/").
RECURSIVE StripTrailingSlashes(_)
StripTrailingSlashes(p) ==
    IF Len(p) > 1 /\ Last(p) = "/" THEN StripTrailingSlashes(Front(p)) ELSE p

\* path.dirname
pathDirname(p) ==
    LET q == StripTrailingSlashes(p)
        i == LastIndexOf(q, "/")
    IN  IF i = 0 THEN <<".">>
        ELSE IF i = 1 THEN <<"/">>
        ELSE StripTrailingSlashes(SubSeq(q, 1, i - 1))

\* path.basename(p)
pathBasename(p) ==
    LET q == StripTrailingSlashes(p)
        i == LastIndexOf(q, "/")
    IN  IF q = <<"/">> THEN <<>> ELSE SubSeq(q, i + 1, Len(q))

\* path.basename(p, ext): the suffix ext is removed when the base name ends
\* with it (compared case-sensitively) and is not ext itself.
pathBasenameExt(p, ext) ==
    LET b == pathBasename(p)
    IN  IF ext # <<>> /\ b # ext /\ EndsWith(b, ext)
        THEN SubSeq(b, 1, Len(b) - Len(ext))
        ELSE b

\* path.extname: from the last "." of the base name, unless that "." is its
\* first character or the base name is "..".
pathExtname(p) ==
    LET b == pathBasename(p)
        i == LastIndexOf(b, ".")
    IN  IF i <= 1 \/ b = <<".", ".">> THEN <<>> ELSE SubSeq(b, i, Len(b))

----------------------------------------------------------------------------
(* The minimatch library, as isIgnored calls it: minimatch(path, pattern,  *)
(* { dot: true }).  The model covers the pattern language the program's    *)
(* default patterns and its documentation use: literal characters, "*",    *)
(* the globstar segment "**", one level of brace alternatives "{a,b}", a   *)
(* leading "!" (negation) and a leading "#" (comment).                     *)

RECURSIVE braceExpand(_)
\* Brace expansion: the first "{...}" group holding a comma is replaced by
\* each of its alternatives; a group without a comma stays literal.
braceExpand(pattern) ==
    LET i == IndexOf(pattern, "{")
        after == SubSeq(pattern, i + 1, Len(pattern))
        j == IndexOf(after, "}")
        body == SubSeq(after, 1, j - 1)
        pre == SubSeq(pattern, 1, i - 1)
        post == SubSeq(after, j + 1, Len(after))
        alts == Split(body, ",")
        Expand[k \in 0..Len(alts)] ==
            IF k = 0 THEN <<>>
            ELSE Expand[k - 1] \o braceExpand(pre \o alts[k] \o post)
    IN  IF i = 0 \/ j = 0 THEN <<pattern>>
        ELSE IF ~Includes(body, ",")
             THEN LET rest == braceExpand(post)
                  IN  [k \in 1..Len(rest) |-> pre \o <<"{">> \o body \o <<"}">> \o rest[k]]
             ELSE Expand[Len(alts)]

\* slashSplit: s.split(/\/+/), a run of slashes separates once.
slashSplit(s) ==
    LET parts == Split(s, "/")
        keep == {k \in 1..Len(parts) : parts[k] # <<>> \/ k = 1 \/ k = Len(parts)}
        F[k \in 0..Len(parts)] ==
            IF k = 0 THEN <<>>
            ELSE IF k \in keep THEN Append(F[k - 1], parts[k]) ELSE F[k - 1]
    IN  F[Len(parts)]

RECURSIVE starMatch(_, _)
\* One path segment against one pattern segment: "*" is [^/]*?, every other
\* character stands for itself.
starMatch(f, p) ==
    IF Len(p) = 0 THEN Len(f) = 0
    ELSE IF Head(p) = "*"
         THEN starMatch(f, Tail(p)) \/ (Len(f) > 0 /\ starMatch(Tail(f), p))
         ELSE Len(f) > 0 /\ Head(f) = Head(p) /\ starMatch(Tail(f), Tail(p))

DotOrDotDot(f) == f = <<".">> \/ f = <<".", ".">>

\* A parsed pattern segment tested on a path segment: a segment without magic
\* is compared as a string; a segment with "*" is a regular expression that
\* does not match the empty string nor, when it starts with "*", "." and "..".
partMatch(f, p) ==
    IF ~Includes(p, "*") THEN f = p
    ELSE /\ f # <<>>
         /\ (Head(p) = "*" => ~DotOrDotDot(f))
         /\ starMatch(f, p)

GLOBSTAR == <<"*", "*">>

RECURSIVE matchOne(_, _)
\* Minimatch.matchOne(file, pattern, partial = false) with dot = true.
matchOne(file, pattern) ==
    IF Len(file) = 0 /\ Len(pattern) = 0 THEN TRUE
    ELSE IF Len(file) = 0 THEN FALSE
    ELSE IF Len(pattern) = 0 THEN Len(file) = 1 /\ file[1] = <<>>
    ELSE IF Head(pattern) = GLOBSTAR
         THEN IF Len(pattern) = 1
              THEN \A k \in 1..Len(file) : ~DotOrDotDot(file[k])
              ELSE \E fr \in 1..Len(file) :
                      /\ \A k \in 1..(fr - 1) : ~DotOrDotDot(file[k])
                      /\ matchOne(SubSeq(file, fr, Len(file)), Tail(pattern))
         ELSE /\ partMatch(Head(file), Head(pattern))
              /\ matchOne(Tail(file), Tail(pattern))

RECURSIVE CountBangs(_)
CountBangs(pattern) ==
    IF Len(pattern) > 0 /\ Head(pattern) = "!" THEN 1 + CountBangs(Tail(pattern)) ELSE 0

\* minimatch(p, pattern, { dot: true }): a comment pattern matches nothing,
\* the empty pattern matches the empty path, leading "!"s negate the result.
minimatch(p, pattern) ==
    IF Len(pattern) > 0 /\ Head(pattern) = "#" THEN FALSE
    ELSE IF pattern = <<>> THEN p = <<>>
    ELSE LET bangs == CountBangs(pattern)
             negate == bangs % 2 = 1
             hit == \E ff \in {slashSplit(p)} :
                       \E glob \in {g[2] : g \in
                                      {<<k, slashSplit(braceExpand(
                                                SubSeq(pattern, bangs + 1, Len(pattern)))[k])>> :
                                         k \in 1..Len(braceExpand(
                                                SubSeq(pattern, bangs + 1, Len(pattern))))}} :
                          matchOne(ff, glob)
         IN  IF hit THEN ~negate ELSE negate

----------------------------------------------------------------------------
(* isIgnored *)

\* The tool's own patterns, in the source's order:
\*   **/*.config.{js,cjs,mjs}   **/{.,}*rc.{js,cjs,json}   **/webpack.*.js
\*   **/gulpfile.{js,mjs}       **/Gruntfile.js            **/rollup.config.js
\*   **/jest.config.js          **/jest.setup.js           **/playwright.config.js
\*   **/cypress.config.js       **/babel.config.js         **/eslint.config.js
DEFAULT_IGNORE_PATTERNS ==
    << <<"*", "*", "/", "*", ".", "c", "o", "n", "f", "i", "g", ".", "{", "j", "s", ",", "c", "j", "s", ",", "m", "j", "s", "}">>,
       <<"*", "*", "/", "{", ".", ",", "}", "*", "r", "c", ".", "{", "j", "s", ",", "c", "j", "s", ",", "j", "s", "o", "n", "}">>,
       <<"*", "*", "/", "w", "e", "b", "p", "a", "c", "k", ".", "*", ".", "j", "s">>,
       <<"*", "*", "/", "g", "u", "l", "p", "f", "i", "l", "e", ".", "{", "j", "s", ",", "m", "j", "s", "}">>,
       <<"*", "*", "/", "G", "r", "u", "n", "t", "f", "i", "l", "e", ".", "j", "s">>,
       <<"*", "*", "/", "r", "o", "l", "l", "u", "p", ".", "c", "o", "n", "f", "i", "g", ".", "j", "s">>,
       <<"*", "*", "/", "j", "e", "s", "t", ".", "c", "o", "n", "f", "i", "g", ".", "j", "s">>,
       <<"*", "*", "/", "j", "e", "s", "t", ".", "s", "e", "t", "u", "p", ".", "j", "s">>,
       <<"*", "*", "/", "p", "l", "a", "y", "w", "r", "i", "g", "h", "t", ".", "c", "o", "n", "f", "i", "g", ".", "j", "s">>,
       <<"*", "*", "/", "c", "y", "p", "r", "e", "s", "s", ".", "c", "o", "n", "f", "i", "g", ".", "j", "s">>,
       <<"*", "*", "/", "b", "a", "b", "e", "l", ".", "c", "o", "n", "f", "i", "g", ".", "j", "s">>,
       <<"*", "*", "/", "e", "s", "l", "i", "n", "t", ".", "c", "o", "n", "f", "i", "g", ".", "j", "s">> >>

\* [...new Set(list)]: the first occurrence of each element, in order.
Dedupe(list) ==
    LET F[k \in 0..Len(list)] ==
            IF k = 0 THEN <<>>
            ELSE IF \E j \in 1..(k - 1) : list[j] = list[k] THEN F[k - 1]
                 ELSE Append(F[k - 1], list[k])
    IN  F[Len(list)]

\* The merged pattern list of an isIgnored call.
allPatterns(ignorePatterns) == Dedupe(DEFAULT_IGNORE_PATTERNS \o ignorePatterns)

\* The test the loop of isIgnored makes for one pattern: the path itself, or
\* the path and the pattern each followed by "/".
patternIgnores(normalizedPath, pattern) ==
    \E normalizedPattern \in {replaceBackslashes(pattern)} :
        \/ minimatch(normalizedPath, normalizedPattern)
        \/ minimatch(normalizedPath \o <<"/">>, normalizedPattern \o <<"/">>)

\* An isIgnored without the test of the base directory itself.
isIgnoredRootMatched(filePath, ignorePatterns, baseDir) ==
    \E normalizedPath \in {replaceBackslashes(pathRelative(baseDir, filePath))} :
        \E all \in {allPatterns(ignorePatterns)} :
           \E k \in 1..Len(all) : patternIgnores(normalizedPath, all[k])

\* isIgnored(filePath, ignorePatterns, baseDir)
isIgnored(filePath, ignorePatterns, baseDir) ==
    \E relativePath \in {pathRelative(baseDir, filePath)} :
        /\ relativePath # <<>>
        /\ relativePath # <<".">>
        /\ \E normalizedPath \in {replaceBackslashes(relativePath)} :
              \E all \in {allPatterns(ignorePatterns)} :
                 \E k \in 1..Len(all) : patternIgnores(normalizedPath, all[k])

----------------------------------------------------------------------------
(* File contents and the external minifiers *)

\* A text is its code (the text without a trailing source-map reference
\* comment) and the URL of that comment (NoUrl: no comment).  The codes:
\*   "empty"    the empty text
\*   "verbose"  a text the minifier shortens to "minimal"
\*   "minimal"  a text the minifier returns unchanged
\*   "broken"   a text the minifier rejects
NoUrl == <<>>

Text(code, url) == [code |-> code, url |-> url]

NoContent == Text("none", NoUrl)

\* Buffer.byteLength(content, 'utf8')
byteLength(content) ==
    (CASE content.code = "empty" -> 0
       [] content.code = "minimal" -> 4
       [] content.code = "broken" -> 6
       [] OTHER -> 60)
    + (IF content.url = NoUrl THEN 0 ELSE 22 + Len(content.url))

\* originalContent.replace(<the two sourceMappingURL forms>, '').trim()
cleanContent(content) == Text(content.code, NoUrl)

\* What each of terser, cssnano and html-minifier-terser does to a code.
minifiedCode(code) == IF code = "verbose" THEN "minimal" ELSE code

minifierRejects(code) == code = "broken"

NoMap == Text("none", NoUrl)

\* The outcome of the try block's dispatch on the extension: the minifier
\* called, whether it threw, its output and the map it produced.
runMinifier(ext, originalContent, options, url) ==
    LET cleanedContent == cleanContent(originalContent)
        withUrl == IF options.sourceMap THEN url ELSE NoUrl
    IN  IF ext \in {<<".", "j", "s">>, <<".", "c", "s", "s">>}
        THEN IF minifierRejects(cleanedContent.code)
             THEN [threw |-> TRUE, minified |-> FALSE, content |-> originalContent,
                   sourceMapContent |-> NoMap]
             ELSE [threw |-> FALSE, minified |-> TRUE,
                   content |-> Text(minifiedCode(cleanedContent.code), withUrl),
                   sourceMapContent |->
                       IF options.sourceMap THEN Text("sourcemap", NoUrl) ELSE NoMap]
        ELSE IF ext = <<".", "h", "t", "m", "l">>
        THEN IF minifierRejects(originalContent.code)
             THEN [threw |-> TRUE, minified |-> FALSE, content |-> originalContent,
                   sourceMapContent |-> NoMap]
             ELSE [threw |-> FALSE, minified |-> TRUE,
                   content |-> Text(minifiedCode(originalContent.code), originalContent.url),
                   sourceMapContent |-> NoMap]
        ELSE [threw |-> FALSE, minified |-> FALSE, content |-> originalContent,
              sourceMapContent |-> NoMap]

----------------------------------------------------------------------------
(* The file system (fs.promises) *)

\* F applied to the value of e.  TLC passes an operator's arguments
\* unevaluated; Bind has e evaluated once, whatever F does with it.
Bind(e, F(_)) == CHOOSE r \in {F(v) : v \in {e}} : TRUE

\* A file system maps the absolute paths that exist to their entries: a
\* regular file with its content, a directory, or another kind of node (a
\* FIFO, a socket).  r and w are the entry's read and write permissions.
File(content, r, w) == [kind |-> "file", content |-> content, r |-> r, w |-> w]

Dir(r, w) == [kind |-> "dir", content |-> NoContent, r |-> r, w |-> w]

Other == [kind |-> "other", content |-> NoContent, r |-> TRUE, w |-> TRUE]

exists(fs, p) == p \in DOMAIN fs

isDirectory(fs, p) == exists(fs, p) /\ fs[p].kind = "dir"

isFile(fs, p) == exists(fs, p) /\ fs[p].kind = "file"

\* The path and its ancestors, the root first.
Ancestors(p) ==
    Bind(Segments(p), LAMBDA segs :
        [k \in 1..(Len(segs) + 1) |->
            <<"/">> \o JoinWith(SubSeq(segs, 1, k - 1), <<"/">>)])

\* fs.readFile(p, 'utf8')
readFile(fs, p) ==
    IF isFile(fs, p) /\ fs[p].r
    THEN [ok |-> TRUE, content |-> fs[p].content]
    ELSE [ok |-> FALSE, content |-> NoContent]

RECURSIVE mkdirChain(_, _, _)
\* The directories chain[k], chain[k + 1], ... are created where missing,
\* each in a writable parent; an entry in the way that is not a directory,
\* or a parent that is not writable, makes it fail where it stands.
mkdirChain(fs, chain, k) ==
    IF k > Len(chain) THEN [ok |-> TRUE, fs |-> fs]
    ELSE IF exists(fs, chain[k])
         THEN IF fs[chain[k]].kind = "dir" THEN mkdirChain(fs, chain, k + 1)
              ELSE [ok |-> FALSE, fs |-> fs]
         ELSE IF k > 1 /\ fs[chain[k - 1]].w
              THEN Bind(fs @@ (chain[k] :> Dir(TRUE, TRUE)),
                        LAMBDA made : mkdirChain(made, chain, k + 1))
              ELSE [ok |-> FALSE, fs |-> fs]

\* The longest path the system calls take (PATH_MAX, in characters): a
\* longer one fails with ENAMETOOLONG.
PathMax == 48

\* fs.mkdir(p, { recursive: true })
mkdir(fs, p) ==
    IF Len(p) > PathMax THEN [ok |-> FALSE, fs |-> fs]
    ELSE Bind(Ancestors(p), LAMBDA chain : mkdirChain(fs, chain, 1))

\* A writeFile that reports success and leaves the file system as it was.
writeFileDropped(fs, p, content) == [ok |-> TRUE, fs |-> fs]

\* fs.writeFile(p, content, 'utf8'): an existing writable file is replaced, a
\* new file is created in an existing writable directory.
writeFile(fs, p, content) ==
    IF Len(p) > PathMax THEN [ok |-> FALSE, fs |-> fs]
    ELSE IF exists(fs, p)
    THEN IF fs[p].kind = "file" /\ fs[p].w
         THEN [ok |-> TRUE, fs |-> [fs EXCEPT ![p].content = content]]
         ELSE [ok |-> FALSE, fs |-> fs]
    ELSE IF isDirectory(fs, pathDirname(p)) /\ fs[pathDirname(p)].w
         THEN [ok |-> TRUE, fs |-> fs @@ (p :> File(content, TRUE, TRUE))]
         ELSE [ok |-> FALSE, fs |-> fs]

----------------------------------------------------------------------------
(* processFile *)

\* process.cwd(): /w
cwd == <<"/", "w">>

NullPath == <<"null">>

NullError == "null"

JS == <<".", "j", "s">>

CSS == <<".", "c", "s", "s">>

HTML == <<".", "h", "t", "m", "l">>

\* The result object processFile starts from.
initialResult(filePath) ==
    [filePath |-> pathRelative(cwd, filePath),
     originalSize |-> 0, minifiedSize |-> 0, reduction |-> 0, reductionPercent |-> 0,
     status |-> "Skipped", outputFilePath |-> NullPath,
     sourceMapGenerated |-> FALSE, error |-> NullError]

\* Whether options.outputDir carries a rename pattern.
isRenamePattern(outputDir) ==
    pathExtname(outputDir) # <<>> /\ Includes(pathBasename(outputDir), "*")

\* lastPart.substring(lastPart.indexOf('.'))
newExtension(lastPart) ==
    SubSeq(lastPart, IF IndexOf(lastPart, ".") = 0 THEN 1 ELSE IndexOf(lastPart, "."),
           Len(lastPart))

\* The file name the output gets under a rename pattern.
targetFileName(filePath, outputDir) ==
    IF StartsWith(Last(Split(outputDir, "/")), <<"*">>)
    THEN pathBasenameExt(pathBasename(filePath), toLowerCase(pathExtname(filePath)))
         \o newExtension(Last(Split(outputDir, "/")))
    ELSE pathBasename(filePath)

\* Whether the "Complex output pattern" warning is printed.
warnsComplexPattern(outputDir) ==
    /\ outputDir # <<>>
    /\ isRenamePattern(outputDir)
    /\ ~StartsWith(Last(Split(outputDir, "/")), <<"*">>)

\* The output path under a rename pattern.
renamedOutputPath(filePath, options) ==
    pathJoin(<<pathDirname(pathJoin(<<pathJoin(<<cwd>> \o Front(Split(options.outputDir, "/"))),
                                      pathRelative(options.basePath, filePath)>>)),
               targetFileName(filePath, options.outputDir)>>)

\* A literalOutputPath that drops the input's subdirectory.
literalOutputPathFlat(filePath, options) ==
    pathJoin(<<pathResolve(cwd, options.outputDir), pathBasename(filePath)>>)

\* The output path under a literal output directory.
literalOutputPath(filePath, options) ==
    pathJoin(<<pathResolve(cwd, options.outputDir),
               pathRelative(options.basePath, filePath)>>)

\* outputFilePath: the input path itself without options.outputDir.
planOutputPath(filePath, options) ==
    IF options.outputDir = <<>> THEN filePath
    ELSE IF isRenamePattern(options.outputDir) THEN renamedOutputPath(filePath, options)
    ELSE literalOutputPath(filePath, options)

\* A sourceMapTargetDir that does not look at options.sourceMapDir.
sourceMapTargetDirBesideOutput(filePath, options, outputFilePath) ==
    IF options.outputDir # <<>> THEN pathDirname(outputFilePath)
    ELSE pathDirname(filePath)

\* sourceMapTargetDir
sourceMapTargetDir(filePath, options, outputFilePath) ==
    IF options.sourceMapDir # <<>>
    THEN pathResolve(pathDirname(filePath), options.sourceMapDir)
    ELSE IF options.outputDir # <<>> THEN pathDirname(outputFilePath)
    ELSE pathDirname(filePath)

\* sourceMapActualFilePath
sourceMapActualFilePath(filePath, options, outputFilePath) ==
    pathJoin(<<sourceMapTargetDir(filePath, options, outputFilePath),
               pathBasename(outputFilePath) \o <<".", "m", "a", "p">>>>)

\* sourceMapUrlRelativeFromMinifiedFile
sourceMapUrl(filePath, options, outputFilePath) ==
    replaceBackslashes(
        pathRelative(pathDirname(outputFilePath),
                     sourceMapActualFilePath(filePath, options, outputFilePath)))

\* What a processFile call computes before its try block.
Plan(filePath, options) ==
    Bind(planOutputPath(filePath, options), LAMBDA out :
        [outputFilePath |-> out,
         outputDir |-> pathDirname(out),
         relativeOutput |-> pathRelative(cwd, out),
         mapDir |-> sourceMapTargetDir(filePath, options, out),
         mapPath |-> sourceMapActualFilePath(filePath, options, out),
         url |-> sourceMapUrl(filePath, options, out)])

Op(op, path, ok) == [op |-> op, path |-> path, ok |-> ok]

Outcome(threw, result, fs, ops) ==
    [threw |-> threw, result |-> result, fs |-> fs, ops |-> ops]

\* A Failed that sets the status and leaves the error null.
FailedUnexplained(result, message) == [result EXCEPT !.status = "Error"]

Failed(result, message) == [result EXCEPT !.status = "Error", !.error = message]

\* The sizes set when the minified content differs from the original.
withSizes(result, minifiedSize) ==
    [result EXCEPT
        !.minifiedSize = minifiedSize,
        !.reduction = result.originalSize - minifiedSize,
        !.reductionPercent =
            IF result.originalSize > 0
            THEN ((result.originalSize - minifiedSize) * 100) \div result.originalSize
            ELSE 0]

\* A writeMap that leaves sourceMapGenerated as it was.
writeMapUnflagged(fs, result, plan, min, ops) ==
    Bind(mkdir(fs, plan.mapDir), LAMBDA mk :
        IF ~mk.ok
        THEN Outcome(FALSE, Failed(result, "mkdir failed"), mk.fs,
                     Append(ops, Op("mkdir", plan.mapDir, FALSE)))
        ELSE Bind(writeFile(mk.fs, plan.mapPath, min.sourceMapContent), LAMBDA wm :
                 Outcome(FALSE,
                         IF wm.ok THEN result ELSE Failed(result, "map write failed"),
                         wm.fs,
                         ops \o <<Op("mkdir", plan.mapDir, TRUE),
                                  Op("writeMap", plan.mapPath, wm.ok)>>)))

\* The map is written: its directory is created, then the file.
writeMap(fs, result, plan, min, ops) ==
    Bind(mkdir(fs, plan.mapDir), LAMBDA mk :
        IF ~mk.ok
        THEN Outcome(FALSE, Failed(result, "mkdir failed"), mk.fs,
                     Append(ops, Op("mkdir", plan.mapDir, FALSE)))
        ELSE Bind(writeFile(mk.fs, plan.mapPath, min.sourceMapContent), LAMBDA wm :
                 Outcome(FALSE,
                         IF wm.ok THEN [result EXCEPT !.sourceMapGenerated = TRUE]
                         ELSE Failed(result, "map write failed"),
                         wm.fs,
                         ops \o <<Op("mkdir", plan.mapDir, TRUE),
                                  Op("writeMap", plan.mapPath, wm.ok)>>)))

\* The write branch (dryRun unset): the content write, then the map; a
\* failure of either is caught.
writeOutputs(fs, result, options, plan, min, ops) ==
    Bind(writeFile(fs, plan.outputFilePath, min.content), LAMBDA w :
        IF ~w.ok
        THEN Outcome(FALSE, Failed(result, "write failed"), fs,
                     Append(ops, Op("writeFile", plan.outputFilePath, FALSE)))
        ELSE IF options.sourceMap /\ min.sourceMapContent # NoMap
        THEN writeMap(w.fs, [result EXCEPT !.status = "Minified"], plan, min,
                      Append(ops, Op("writeFile", plan.outputFilePath, TRUE)))
        ELSE Outcome(FALSE, [result EXCEPT !.status = "Minified"], w.fs,
                     Append(ops, Op("writeFile", plan.outputFilePath, TRUE))))

\* A reportMinified whose dry-run branch leaves the sizes at zero.
reportMinifiedUnsized(fs, result, options, plan, min, ops) ==
    IF ~options.dryRun
    THEN writeOutputs(fs, withSizes(result, byteLength(min.content)), options, plan, min, ops)
    ELSE Outcome(FALSE, [result EXCEPT !.status = "[DRY RUN] Minified"], fs, ops)

\* The branch taken when the minifier changed the content: the sizes, then
\* the writes, or the dry-run report.
reportMinified(fs, result, options, plan, min, ops) ==
    IF ~options.dryRun
    THEN writeOutputs(fs, withSizes(result, byteLength(min.content)), options, plan, min, ops)
    ELSE Outcome(FALSE,
                 [withSizes(result, byteLength(min.content)) EXCEPT
                     !.status = "[DRY RUN] Minified"],
                 fs, ops)

\* A minifyAndWrite that does not compare the minified content with the
\* original.
minifyAndWriteUncompared(fs, result, filePath, options, plan, originalContent, ops) ==
    Bind(runMinifier(toLowerCase(pathExtname(filePath)), originalContent, options, plan.url),
         LAMBDA min :
            IF min.threw THEN Outcome(FALSE, Failed(result, "minify failed"), fs, ops)
            ELSE IF min.minified
            THEN reportMinified(fs, result, options, plan, min, ops)
            ELSE Outcome(FALSE, [result EXCEPT !.status = "No Change"], fs, ops))

\* A minifyAndWrite without the catch: the minifier's throw leaves
\* processFile.
minifyAndWriteUncaught(fs, result, filePath, options, plan, originalContent, ops) ==
    Bind(runMinifier(toLowerCase(pathExtname(filePath)), originalContent, options, plan.url),
         LAMBDA min :
            IF min.threw THEN Outcome(TRUE, result, fs, ops)
            ELSE IF min.minified /\ originalContent # min.content
            THEN reportMinified(fs, result, options, plan, min, ops)
            ELSE Outcome(FALSE, [result EXCEPT !.status = "No Change"], fs, ops))

\* The try block: the minifier, then the comparison with the original; the
\* catch turns a throw into Error.
minifyAndWrite(fs, result, filePath, options, plan, originalContent, ops) ==
    Bind(runMinifier(toLowerCase(pathExtname(filePath)), originalContent, options, plan.url),
         LAMBDA min :
            IF min.threw THEN Outcome(FALSE, Failed(result, "minify failed"), fs, ops)
            ELSE IF min.minified /\ originalContent # min.content
            THEN reportMinified(fs, result, options, plan, min, ops)
            ELSE Outcome(FALSE, [result EXCEPT !.status = "No Change"], fs, ops))

\* With options.outputDir the directory of the output path is created:
\* that mkdir is outside every try, its failure leaves processFile as a
\* rejection.
createOutputDir(fs, options, plan) ==
    IF options.outputDir # <<>> THEN mkdir(fs, plan.outputDir) ELSE [ok |-> TRUE, fs |-> fs]

outputDirOps(options, plan, ok) ==
    IF options.outputDir # <<>> THEN <<Op("mkdir", plan.outputDir, ok)>> ELSE <<>>

\* processFile after the read.
planAndMinify(fs, result, filePath, options, originalContent, ops) ==
    Bind(Plan(filePath, options), LAMBDA plan :
        Bind(createOutputDir(fs, options, plan), LAMBDA mk :
            IF ~mk.ok
            THEN Outcome(TRUE, result, mk.fs, ops \o outputDirOps(options, plan, FALSE))
            ELSE minifyAndWrite(mk.fs,
                                [result EXCEPT !.outputFilePath = plan.relativeOutput],
                                filePath, options, plan, originalContent,
                                ops \o outputDirOps(options, plan, TRUE))))

\* Whether processFile returns Ignored.
ignoresFile(filePath, options) ==
    options.hasIgnorePatterns
    /\ isIgnored(filePath, options.ignorePatterns, options.basePath)

\* An outcome with whether the call printed the "Complex output pattern"
\* warning.
Warned(outcome, warned) ==
    [threw |-> outcome.threw, result |-> outcome.result, fs |-> outcome.fs,
     ops |-> outcome.ops, warned |-> warned]

\* A processFile that reads the file before its ignore check.
processFileReadFirst(fs, filePath, options) ==
    Bind(readFile(fs, filePath), LAMBDA rd :
        IF ignoresFile(filePath, options)
        THEN Warned(Outcome(FALSE, [initialResult(filePath) EXCEPT !.status = "Ignored"],
                            fs, <<Op("readFile", filePath, rd.ok)>>),
                    FALSE)
        ELSE IF ~rd.ok
        THEN Warned(Outcome(FALSE, Failed(initialResult(filePath), "Failed to read"),
                            fs, <<Op("readFile", filePath, FALSE)>>),
                    FALSE)
        ELSE Bind(planAndMinify(fs,
                                [initialResult(filePath) EXCEPT
                                    !.originalSize = byteLength(rd.content)],
                                filePath, options, rd.content,
                                <<Op("readFile", filePath, TRUE)>>),
                  LAMBDA outcome :
                      Warned(outcome, warnsComplexPattern(options.outputDir))))

\* processFile(filePath, options) on the file system fs: whether it threw,
\* the result it returned, the file system it left, the file-system
\* operations it made, in order, and whether it warned.
processFile(fs, filePath, options) ==
    IF ignoresFile(filePath, options)
    THEN Warned(Outcome(FALSE, [initialResult(filePath) EXCEPT !.status = "Ignored"],
                        fs, <<>>),
                FALSE)
    ELSE Bind(readFile(fs, filePath), LAMBDA rd :
            IF ~rd.ok
            THEN Warned(Outcome(FALSE, Failed(initialResult(filePath), "Failed to read"),
                                fs, <<Op("readFile", filePath, FALSE)>>),
                        FALSE)
            ELSE Bind(planAndMinify(fs,
                                    [initialResult(filePath) EXCEPT
                                        !.originalSize = byteLength(rd.content)],
                                    filePath, options, rd.content,
                                    <<Op("readFile", filePath, TRUE)>>),
                      LAMBDA outcome :
                          Warned(outcome, warnsComplexPattern(options.outputDir))))

----------------------------------------------------------------------------
(* The trees and the options the program is run on *)

\* /
Root == <<"/">>

\* /w/src
SrcDir == <<"/", "w", "/", "s", "r", "c">>

\* /w/src/app.js
AppJs == <<"/", "w", "/", "s", "r", "c", "/", "a", "p", "p", ".", "j", "s">>

\* /w/src/lib.js
LibJs == <<"/", "w", "/", "s", "r", "c", "/", "l", "i", "b", ".", "j", "s">>

\* /w/src/old.js
OldJs == <<"/", "w", "/", "s", "r", "c", "/", "o", "l", "d", ".", "j", "s">>

\* /w/src/bad.js
BadJs == <<"/", "w", "/", "s", "r", "c", "/", "b", "a", "d", ".", "j", "s">>

\* /w/src/b.css
BCss == <<"/", "w", "/", "s", "r", "c", "/", "b", ".", "c", "s", "s">>

\* /w/src/c.txt
CTxt == <<"/", "w", "/", "s", "r", "c", "/", "c", ".", "t", "x", "t">>

\* /w/src/jest.config.js
JestConfigJs == <<"/", "w", "/", "s", "r", "c", "/", "j", "e", "s", "t", ".", "c", "o", "n", "f", "i", "g", ".", "j", "s">>

\* /w/src/images
ImagesDir == <<"/", "w", "/", "s", "r", "c", "/", "i", "m", "a", "g", "e", "s">>

\* /w/src/images/icon.png
IconPng == <<"/", "w", "/", "s", "r", "c", "/", "i", "m", "a", "g", "e", "s", "/", "i", "c", "o", "n", ".", "p", "n", "g">>

\* /w/src/images/pic.html
PicHtml == <<"/", "w", "/", "s", "r", "c", "/", "i", "m", "a", "g", "e", "s", "/", "p", "i", "c", ".", "h", "t", "m", "l">>

\* /w/src/images/A.JS
UpperJs == <<"/", "w", "/", "s", "r", "c", "/", "i", "m", "a", "g", "e", "s", "/", "A", ".", "J", "S">>

\* /w/src/pipe
Pipe == <<"/", "w", "/", "s", "r", "c", "/", "p", "i", "p", "e">>

\* /w/dist
DistDir == <<"/", "w", "/", "d", "i", "s", "t">>

\* /w/missing
MissingPath == <<"/", "w", "/", "m", "i", "s", "s", "i", "n", "g">>

\* The tree under the working directory /w: the input directory src with
\* files of every kind of content, one per extension, a file a default
\* pattern ignores, a subdirectory and a FIFO.
BaseTree ==
    LET old == Text("minimal", <<"o", "l", "d", ".", "j", "s", ".", "m", "a", "p">>)
    IN  (Root :> Dir(TRUE, TRUE)) @@ (cwd :> Dir(TRUE, TRUE)) @@ (SrcDir :> Dir(TRUE, TRUE))
        @@ (AppJs :> File(Text("verbose", NoUrl), TRUE, TRUE))
        @@ (LibJs :> File(Text("minimal", NoUrl), TRUE, TRUE))
        @@ (OldJs :> File(old, TRUE, TRUE))
        @@ (BadJs :> File(Text("broken", NoUrl), TRUE, TRUE))
        @@ (BCss :> File(Text("empty", NoUrl), TRUE, TRUE))
        @@ (CTxt :> File(Text("verbose", NoUrl), TRUE, TRUE))
        @@ (JestConfigJs :> File(Text("verbose", NoUrl), TRUE, TRUE))
        @@ (ImagesDir :> Dir(TRUE, TRUE))
        @@ (IconPng :> File(Text("verbose", NoUrl), TRUE, TRUE))
        @@ (PicHtml :> File(Text("verbose", NoUrl), TRUE, TRUE))
        @@ (UpperJs :> File(Text("verbose", NoUrl), TRUE, TRUE))
        @@ (Pipe :> Other)

\* /w/src/app.css
AppCss == <<"/", "w", "/", "s", "r", "c", "/", "a", "p", "p", ".", "c", "s", "s">>

\* The trees a traversal into the tree itself starts from: the base tree,
\* and the base tree with app.css beside app.js.
TraverseTrees ==
    { BaseTree, BaseTree @@ (AppCss :> File(Text("verbose", NoUrl), TRUE, TRUE)) }

\* The tree with one entry's permissions changed.
WithMode(tree, p, r, w) == [tree EXCEPT ![p].r = r, ![p].w = w]

\* The trees a run starts from: the base tree, and the base tree with one
\* thing in the way: an unreadable file, a read-only file, a read-only
\* working directory, a read-only input directory, an unreadable
\* subdirectory, a regular file where the output directory would be.
Trees ==
    { BaseTree,
      WithMode(BaseTree, AppJs, FALSE, TRUE),
      WithMode(BaseTree, AppJs, TRUE, FALSE),
      WithMode(BaseTree, cwd, TRUE, FALSE),
      WithMode(BaseTree, SrcDir, TRUE, FALSE),
      WithMode(BaseTree, ImagesDir, FALSE, TRUE),
      BaseTree @@ (DistDir :> File(Text("minimal", NoUrl), TRUE, TRUE)) }

\* The values of --output-dir: absent, a literal directory, rename patterns.
OutputDirs ==
    { <<>>,
      <<"d", "i", "s", "t">>,
      <<"d", "i", "s", "t", "/", "*", "*", "/", "*", ".", "m", "i", "n", ".", "j", "s">>,
      <<"d", "i", "s", "t", "/", "*", ".", "m", "i", "n", ".", "j", "s">> }

\* Values of --output-dir among which are directories of the traversed tree:
\* absent, dist/*.min.js, src/images, src/images/out.
TraverseOutputDirs ==
    { <<>>,
      <<"d", "i", "s", "t", "/", "*", ".", "m", "i", "n", ".", "j", "s">>,
      <<"s", "r", "c", "/", "i", "m", "a", "g", "e", "s">>,
      <<"s", "r", "c", "/", "i", "m", "a", "g", "e", "s", "/", "o", "u", "t">> }

\* Values of --source-map-dir, relative and absolute: absent, maps, /w/maps.
TraverseSourceMapDirs ==
    { <<>>, <<"m", "a", "p", "s">>, <<"/", "w", "/", "m", "a", "p", "s">> }

\* The values of --source-map-dir.
SourceMapDirs == { <<>>, <<"m", "a", "p", "s">> }

\* The user's ignore patterns (the ignore file's and --ignore's together).
IgnoreLists == { <<>>, <<<<"i", "m", "a", "g", "e", "s", "/">>>> }

Options(hasIgnore, ignore, outputDir, sourceMap, sourceMapDir, dryRun, basePath) ==
    [hasIgnorePatterns |-> hasIgnore, ignorePatterns |-> ignore, outputDir |-> outputDir,
     sourceMap |-> sourceMap, sourceMapDir |-> sourceMapDir, dryRun |-> dryRun,
     basePath |-> basePath]

\* The values of options.outputDir in calls through the module's exports:
\* those of the command line, an absolute directory, a last segment with
\* "*" and no extension, an absolute rename pattern, a pattern whose last
\* segment has "*" inside.
ApiOutputDirs ==
    OutputDirs \cup
    { <<"/", "o", "u", "t">>,
      <<"d", "i", "s", "t", "/", "*">>,
      <<"/", "o", "u", "t", "/", "*", ".", "m", "i", "n", ".", "j", "s">>,
      <<"d", "i", "s", "t", "/", "a", "*", ".", "j", "s">> }

\* The options objects processFile is called with through the module's
\* exports: ignorePatterns may be absent.
ApiOptions ==
    { Options(h, ig, od, sm, smd, dr, SrcDir) :
        h \in BOOLEAN, ig \in IgnoreLists, od \in ApiOutputDirs, sm \in BOOLEAN,
        smd \in SourceMapDirs, dr \in BOOLEAN } \ 
    { Options(FALSE, ig, od, sm, smd, dr, SrcDir) :
        ig \in IgnoreLists \ {<<>>}, od \in ApiOutputDirs, sm \in BOOLEAN,
        smd \in SourceMapDirs, dr \in BOOLEAN }

\* The files processFile is called on.
ApiFiles ==
    { AppJs, LibJs, OldJs, BadJs, BCss, CTxt, JestConfigJs, PicHtml, UpperJs, MissingPath }

----------------------------------------------------------------------------
(* traverseAndMinifyDirectory *)

\* The characters of the model's names in byte order.
Alphabet == <<"!", "#", "*", ",", "-", ".", "/", "0", "1", "2", "3", "4", "5", "6", "7", "8", "9", "A", "J", "P", "S", "_", "a", "b", "c", "d", "e", "f", "g", "h", "i", "j", "k", "l", "m", "n", "o", "p", "q", "r", "s", "t", "u", "v", "w", "x", "y", "z", "{", "}">>

CharCode(c) == CHOOSE k \in 1..Len(Alphabet) : Alphabet[k] = c

RECURSIVE NameLess(_, _)
\* Byte-wise order of two names.
NameLess(a, b) ==
    IF Len(b) = 0 THEN FALSE
    ELSE IF Len(a) = 0 THEN TRUE
    ELSE IF Head(a) # Head(b) THEN CharCode(Head(a)) < CharCode(Head(b))
    ELSE NameLess(Tail(a), Tail(b))

RECURSIVE SortNames(_)
SortNames(names) ==
    IF names = {} THEN <<>>
    ELSE LET least == CHOOSE n \in names : \A m \in names \ {n} : NameLess(n, m)
         IN  <<least>> \o SortNames(names \ {least})

\* fs.readdir(directory): the names of the entries, here in byte order; it
\* fails on what is not a readable directory.
readdir(fs, directory) ==
    IF isDirectory(fs, directory) /\ fs[directory].r
    THEN [ok |-> TRUE,
          files |-> SortNames({pathBasename(p) :
                                 p \in {q \in DOMAIN fs : q # directory
                                                          /\ pathDirname(q) = directory}})]
    ELSE [ok |-> FALSE, files |-> <<>>]

\* An enterDirectory without the ignore check.
enterDirectoryUnchecked(fs, directory, options, frames) ==
    Bind(readdir(fs, directory), LAMBDA rd :
        IF ~rd.ok THEN frames
        ELSE Append(frames, [directory |-> directory, files |-> rd.files]))

\* The start of a traverseAndMinifyDirectory call: an ignored directory and
\* a directory that cannot be read return at once, any other directory
\* becomes the frame the loop works on.
enterDirectory(fs, directory, options, frames) ==
    IF options.hasIgnorePatterns
       /\ isIgnored(directory, options.ignorePatterns, options.basePath)
    THEN frames
    ELSE Bind(readdir(fs, directory), LAMBDA rd :
            IF ~rd.ok THEN frames
            ELSE Append(frames, [directory |-> directory, files |-> rd.files]))

\* The extensions the walker hands to processFile.
isSupportedExtension(filePath) ==
    toLowerCase(pathExtname(filePath)) \in {JS, CSS, HTML}

----------------------------------------------------------------------------
(* State *)

VARIABLES
    fs,          \* the file system
    options,     \* the minifier options of the run
    inputPath,   \* the <path> argument of the command line
    pc,          \* "start", "walk", "exited": where the command-line action is;
                 \* "api": the module's exports are called directly
    stack,       \* the frames of traverseAndMinifyDirectory: directory, files left
    results,     \* the results array of the run
    exitCode,    \* the exit code of the process, once pc is "exited"
    runs,        \* the number of the current invocation
    prevResults, \* the results of the invocation before
    last,        \* the most recent processFile call of the invocation:
                 \* arguments, file system before it, outcome
    ign          \* the most recent isIgnored call: arguments and result

vars == <<fs, options, inputPath, pc, stack, results, exitCode, runs, prevResults, last, ign>>

\* The number of times the tool is invoked on the tree.
MaxRuns == 2

NoCall ==
    [called |-> FALSE, filePath |-> <<>>,
     options |-> Options(FALSE, <<>>, <<>>, FALSE, <<>>, FALSE, <<>>),
     before |-> BaseTree, threw |-> FALSE, result |-> initialResult(cwd), ops |-> <<>>,
     warned |-> FALSE]

\* The record of a processFile call.
Call(before, filePath, opts, out) ==
    [called |-> TRUE, filePath |-> filePath, options |-> opts, before |-> before,
     threw |-> out.threw, result |-> out.result, ops |-> out.ops, warned |-> out.warned]

NoIgnoreCall ==
    [called |-> FALSE, filePath |-> <<>>, ignorePatterns |-> <<>>, baseDir |-> <<>>,
     result |-> FALSE]

\* The values of <path>.
InputPaths ==
    { <<"s", "r", "c">>,
      <<"s", "r", "c", "/", "a", "p", "p", ".", "j", "s">>,
      <<"m", "i", "s", "s", "i", "n", "g">>,
      <<"s", "r", "c", "/", "p", "i", "p", "e">> }

\* The options the command line builds: ignorePatterns is always an array.
CliOptions ==
    { Options(TRUE, ig, od, sm, smd, dr, <<>>) :
        ig \in IgnoreLists, od \in OutputDirs, sm \in BOOLEAN,
        smd \in SourceMapDirs, dr \in BOOLEAN }

\* The options of the traversals into the tree itself.
TraverseOptions ==
    { Options(TRUE, <<>>, od, sm, smd, dr, <<>>) :
        od \in TraverseOutputDirs, sm \in BOOLEAN, smd \in TraverseSourceMapDirs,
        dr \in BOOLEAN }

\* The paths and the pattern lists isIgnored is called with.
IgnorePaths ==
    { <<"/", "w", "/", "s", "r", "c">>,
      <<"/", "w", "/", "s", "r", "c", "/", "i", "m", "a", "g", "e", "s">>,
      <<"/", "w", "/", "s", "r", "c", "/", "i", "m", "a", "g", "e", "s", "/", "i", "c", "o", "n", ".", "p", "n", "g">>,
      <<"/", "w", "/", "s", "r", "c", "/", "i", "m", "a", "g", "e", "s", "/", "p", "i", "c", ".", "h", "t", "m", "l">>,
      <<"/", "w", "/", "s", "r", "c", "/", "i", "m", "a", "g", "e", "s", "/", "s", "u", "b", "/", "d", "e", "e", "p", ".", "j", "s">>,
      <<"/", "w", "/", "s", "r", "c", "/", "a", "p", "p", ".", "j", "s">>,
      <<"/", "w", "/", "s", "r", "c", "/", "j", "e", "s", "t", ".", "c", "o", "n", "f", "i", "g", ".", "j", "s">>,
      <<"/", "w", "/", "s", "r", "c", "/", "l", "i", "b", "/", "w", "e", "b", "p", "a", "c", "k", ".", "d", "e", "v", ".", "j", "s">>,
      <<"/", "w", "/", "s", "r", "c", "/", "b", "u", "i", "l", "d">>,
      <<"/", "w", "/", "s", "r", "c", "/", "b", "u", "i", "l", "d", "/", "i", "n", "d", "e", "x", ".", "h", "t", "m", "l">>,
      <<"/", "w", "/", "s", "r", "c", "/", ".", "e", "s", "l", "i", "n", "t", "r", "c", ".", "j", "s">>,
      <<"/", "w", "/", "d", "i", "s", "t">> }

IgnoreApiLists ==
    { <<>>,
      <<<<"i", "m", "a", "g", "e", "s", "/">>>>,
      <<<<"i", "m", "a", "g", "e", "s">>>>,
      <<<<"i", "m", "a", "g", "e", "s", "/", "*", "*">>>>,
      <<<<"*", ".", "j", "s">>>>,
      <<<<"*", "*", "/", "*", ".", "j", "s">>>>,
      <<<<"*", "*">>>>,
      <<<<"b", "u", "i", "l", "d", "/">>, <<"!", "b", "u", "i", "l", "d", "/", "i", "n", "d", "e", "x", ".", "h", "t", "m", "l">>>>,
      <<<<"a", "p", "p", ".", "j", "s">>, <<"i", "m", "a", "g", "e", "s", "/">>>>,
      <<<<"i", "m", "a", "g", "e", "s", "/">>, <<"a", "p", "p", ".", "j", "s">>>>,
      <<<<"#", "i", "m", "a", "g", "e", "s">>>>,
      <<<<"b", "u", "i", "l", "d">>>> }

Idle ==
    /\ stack = <<>>
    /\ results = <<>>
    /\ exitCode = 0
    /\ runs = 1
    /\ prevResults = <<>>
    /\ last = NoCall
    /\ ign = NoIgnoreCall

\* The command line is run on a tree.
Init ==
    /\ fs \in Trees
    /\ options \in CliOptions
    /\ inputPath \in InputPaths
    /\ pc = "start"
    /\ Idle

\* The command line is run on src, every entry of the tree writable.
InitTraverse ==
    /\ fs \in TraverseTrees
    /\ options \in TraverseOptions
    /\ inputPath = <<"s", "r", "c">>
    /\ pc = "start"
    /\ Idle

\* processFile is called through the module's exports.
InitProcessFile ==
    /\ fs \in Trees
    /\ options = NoCall.options
    /\ inputPath = <<>>
    /\ pc = "api"
    /\ Idle

\* isIgnored is called through the module's exports.
InitIsIgnored ==
    /\ fs = BaseTree
    /\ options = NoCall.options
    /\ inputPath = <<>>
    /\ pc = "api"
    /\ Idle

----------------------------------------------------------------------------
(* The module's exports called directly *)

CallIsIgnored ==
    /\ pc = "api"
    /\ ~ign.called
    /\ \E filePath \in IgnorePaths, ignorePatterns \in IgnoreApiLists :
          ign' = [called |-> TRUE, filePath |-> filePath,
                  ignorePatterns |-> ignorePatterns, baseDir |-> SrcDir,
                  result |-> isIgnored(filePath, ignorePatterns, SrcDir)]
    /\ UNCHANGED <<fs, options, inputPath, pc, stack, results, exitCode, runs,
                   prevResults, last>>

CallProcessFile ==
    /\ pc = "api"
    /\ ~last.called
    /\ \E filePath \in ApiFiles, opts \in ApiOptions :
          \E out \in {processFile(fs, filePath, opts)} :
             /\ last' = Call(fs, filePath, opts, out)
             /\ fs' = out.fs
             /\ options' = opts
    /\ UNCHANGED <<inputPath, pc, stack, results, exitCode, runs, prevResults, ign>>

----------------------------------------------------------------------------
(* The command-line action *)

absolutePath == pathResolve(cwd, inputPath)

\* The first stat fails: "Could not find path", process.exit(1).
CliPathNotFound ==
    /\ pc = "start"
    /\ ~exists(fs, absolutePath)
    /\ pc' = "exited"
    /\ exitCode' = 1
    /\ UNCHANGED <<fs, options, inputPath, stack, results, runs, prevResults, last, ign>>

\* The path is a directory: it is the base path and is traversed.
CliDirectory ==
    /\ pc = "start"
    /\ isDirectory(fs, absolutePath)
    /\ \E opts \in {[options EXCEPT !.basePath = absolutePath]} :
          /\ options' = opts
          /\ stack' = enterDirectory(fs, absolutePath, opts, <<>>)
    /\ results' = <<>>
    /\ pc' = "walk"
    /\ UNCHANGED <<fs, inputPath, exitCode, runs, prevResults, last, ign>>

\* The path is a regular file: its directory is the base path and
\* processFile is called on it; a rejection is caught and exits with 1.
CliFile ==
    /\ pc = "start"
    /\ isFile(fs, absolutePath)
    /\ \E opts \in {[options EXCEPT !.basePath = pathDirname(absolutePath)]} :
          \E out \in {processFile(fs, absolutePath, opts)} :
             /\ options' = opts
             /\ last' = Call(fs, absolutePath, opts, out)
             /\ fs' = out.fs
             /\ exitCode' = IF out.threw THEN 1 ELSE 0
    /\ pc' = "exited"
    /\ UNCHANGED <<inputPath, stack, results, runs, prevResults, ign>>

\* The path exists and is neither: no branch of the action takes it and
\* the action completes.
CliOther ==
    /\ pc = "start"
    /\ exists(fs, absolutePath)
    /\ ~isDirectory(fs, absolutePath)
    /\ ~isFile(fs, absolutePath)
    /\ options' = [options EXCEPT !.basePath = pathDirname(absolutePath)]
    /\ exitCode' = 0
    /\ pc' = "exited"
    /\ UNCHANGED <<fs, inputPath, stack, results, runs, prevResults, last, ign>>

Walking == pc = "walk" /\ stack # <<>>

top == stack[Len(stack)]

\* The entry the loop of the top frame is at.
entryPath == pathJoin(<<top.directory, Head(top.files)>>)

\* The stack with the top frame's loop moved to its next entry.
advanced == [stack EXCEPT ![Len(stack)].files = Tail(top.files)]

\* A WalkDirectory that does not await the recursive call: the parent's
\* loop goes on and the subdirectory is walked after it.
WalkDirectoryDeferred ==
    /\ Walking
    /\ top.files # <<>>
    /\ isDirectory(fs, entryPath)
    /\ \E directory \in {entryPath} :
          stack' = enterDirectory(fs, directory, options, Front(stack))
                   \o <<advanced[Len(stack)]>>
    /\ UNCHANGED <<fs, options, inputPath, pc, results, exitCode, runs, prevResults,
                   last, ign>>

\* The entry is a directory: the recursive call.
WalkDirectory ==
    /\ Walking
    /\ top.files # <<>>
    /\ isDirectory(fs, entryPath)
    /\ \E directory \in {entryPath} :
          stack' = enterDirectory(fs, directory, options, advanced)
    /\ UNCHANGED <<fs, options, inputPath, pc, results, exitCode, runs, prevResults,
                   last, ign>>

\* The entry is a file of a supported extension: processFile, whose result
\* is pushed; its rejection ends the traversal and the action's catch exits
\* with 1.
WalkFile ==
    /\ Walking
    /\ top.files # <<>>
    /\ exists(fs, entryPath)
    /\ ~isDirectory(fs, entryPath)
    /\ isSupportedExtension(entryPath)
    /\ \E filePath \in {entryPath} :
          \E out \in {processFile(fs, filePath, options)} :
             /\ last' = Call(fs, filePath, options, out)
             /\ fs' = out.fs
             /\ IF out.threw
                THEN /\ pc' = "exited"
                     /\ exitCode' = 1
                     /\ stack' = <<>>
                     /\ results' = results
                ELSE /\ pc' = pc
                     /\ exitCode' = exitCode
                     /\ stack' = advanced
                     /\ results' = Append(results, out.result)
    /\ UNCHANGED <<options, inputPath, runs, prevResults, ign>>

\* The entry cannot be stat'ed or has another extension: the loop goes on.
WalkSkip ==
    /\ Walking
    /\ top.files # <<>>
    /\ ~isDirectory(fs, entryPath)
    /\ ~(exists(fs, entryPath) /\ isSupportedExtension(entryPath))
    /\ stack' = advanced
    /\ UNCHANGED <<fs, options, inputPath, pc, results, exitCode, runs, prevResults,
                   last, ign>>

\* The loop of the top frame is over: the call returns to its caller.
WalkReturn ==
    /\ Walking
    /\ top.files = <<>>
    /\ stack' = Front(stack)
    /\ UNCHANGED <<fs, options, inputPath, pc, results, exitCode, runs, prevResults,
                   last, ign>>

\* The outermost call has returned: the table is displayed, the results are
\* returned and the action completes.
CliComplete ==
    /\ pc = "walk"
    /\ stack = <<>>
    /\ pc' = "exited"
    /\ exitCode' = 0
    /\ UNCHANGED <<fs, options, inputPath, stack, results, runs, prevResults, last, ign>>

\* The tool is invoked again, with the same arguments, on the tree it left.
Rerun ==
    /\ pc = "exited"
    /\ runs < MaxRuns
    /\ runs' = runs + 1
    /\ prevResults' = results
    /\ results' = <<>>
    /\ exitCode' = 0
    /\ pc' = "start"
    /\ last' = NoCall
    /\ UNCHANGED <<fs, options, inputPath, stack, ign>>

Next ==
    \/ CliPathNotFound
    \/ CliDirectory
    \/ CliFile
    \/ CliOther
    \/ WalkDirectory
    \/ WalkFile
    \/ WalkSkip
    \/ WalkReturn
    \/ CliComplete
    \/ Rerun

Spec == Init /\ [][Next]_vars

\* The traversal of a directory, from the action's call to its return.
NextTraverse ==
    \/ CliDirectory
    \/ WalkDirectory
    \/ WalkFile
    \/ WalkSkip
    \/ WalkReturn
    \/ CliComplete

SpecTraverse == InitTraverse /\ [][NextTraverse]_vars

\* The loop of the top frame is at an entry.
AtEntry == Walking /\ top.files # <<>>

\* The step the loop takes on the entry it is at.
LoopStep == WalkDirectory \/ WalkFile \/ WalkSkip

\* The one flow of the action goes on whenever it can: each awaited promise
\* settles and the flow resumes.  That is weak fairness of every step; for
\* the steps that work on a path it is written out, with the condition that
\* enables the step in the place of ENABLED.
FairTraverse ==
    /\ SpecTraverse
    /\ WF_vars(CliComplete)
    /\ WF_vars(WalkReturn)
    /\ ([]<>(~(pc = "start" /\ isDirectory(fs, absolutePath))) \/ []<><<CliDirectory>>_vars)
    /\ ([]<>(~AtEntry) \/ []<><<LoopStep>>_vars)

SpecProcessFile == InitProcessFile /\ [][CallProcessFile]_vars

SpecIsIgnored == InitIsIgnored /\ [][CallIsIgnored]_vars


----------------------------------------------------------------------------
(* Properties *)

\* The regular files of a file system with their contents.
FilesOf(tree) == {<<p, tree[p].content>> : p \in {q \in DOMAIN tree : tree[q].kind = "file"}}

Sizes(result) ==
    <<result.originalSize, result.minifiedSize, result.reduction, result.reductionPercent>>

\* The failed operations of the last processFile call.
FailedOps(kinds) ==
    {k \in DOMAIN last.ops : last.ops[k].op \in kinds /\ ~last.ops[k].ok}

\* C1: a processFile call with dryRun set writes no file content and creates
\* no map file, and the sizes in its result are those the same call with
\* dryRun unset returns on the same file system.
C1_DryRunPurity ==
    (last.called /\ last.options.dryRun) =>
        /\ \A k \in DOMAIN last.ops : last.ops[k].op \notin {"writeFile", "writeMap"}
        /\ FilesOf(fs) = FilesOf(last.before)
        /\ \E wet \in {processFile(last.before, last.filePath,
                                   [last.options EXCEPT !.dryRun = FALSE])} :
              /\ wet.threw = last.threw
              /\ ~last.threw => Sizes(wet.result) = Sizes(last.result)

\* C1: a dry run that reports a minification with a source map, where the
\* same call with dryRun unset writes the output and the map.
C1_Witness ==
    /\ last.called
    /\ last.options.dryRun
    /\ last.options.sourceMap
    /\ last.result.status = "[DRY RUN] Minified"
    /\ last.result.reduction > 0
    /\ \E wet \in {processFile(last.before, last.filePath,
                               [last.options EXCEPT !.dryRun = FALSE])} :
          /\ wet.result.status = "Minified"
          /\ wet.result.sourceMapGenerated
          /\ FilesOf(wet.fs) # FilesOf(last.before)

\* C2: under dryRun the only file-system operation of processFile is the one
\* read of the input file; no directory is created.
C2_DryRunOnlyReads ==
    (last.called /\ last.options.dryRun) =>
        /\ Len(last.ops) <= 1
        /\ \A k \in DOMAIN last.ops : last.ops[k].op = "readFile"
        /\ fs = last.before

\* dist/app.min.js
DistAppMinJs == <<"d", "i", "s", "t", "/", "a", "p", "p", ".", "m", "i", "n", ".", "j", "s">>

\* dist/**/*.min.js
DistDeepMinPattern == <<"d", "i", "s", "t", "/", "*", "*", "/", "*", ".", "m", "i", "n", ".", "j", "s">>

\* C3: with outputDir dist/**/*.min.js, basePath src and the input
\* src/app.js, the output path of the result is dist/app.min.js.
C3_RenamePlanning ==
    ( /\ last.called
      /\ last.filePath = AppJs
      /\ last.options.outputDir = DistDeepMinPattern
      /\ last.options.basePath = SrcDir
      /\ ~last.threw
      /\ last.result.outputFilePath # NullPath ) =>
        last.result.outputFilePath = DistAppMinJs

\* C4: in a traversal every processFile call returns; its result is in the
\* results and the walk goes on to the remaining entries.
C4_PerFileIsolation ==
    (last.called /\ isDirectory(fs, absolutePath)) =>
        /\ ~last.threw
        /\ pc = "walk" \/ (pc = "exited" /\ exitCode = 0)
        /\ \E k \in DOMAIN results : results[k] = last.result

\* C5: a processFile call in which a content write, a map write or the
\* creation of a directory for them failed returns a result with status
\* Error and an error message.
C5_WriteFailureIsResult ==
    (last.called /\ FailedOps({"mkdir", "writeFile", "writeMap"}) # {}) =>
        /\ ~last.threw
        /\ last.result.status = "Error"
        /\ last.result.error # NullError

\* C6: the command line exits non-zero exactly when the input path does not
\* exist or is neither a regular file nor a directory.
C6_ExitCode ==
    pc = "exited" =>
        (exitCode # 0 <=>
            (~exists(fs, absolutePath)
             \/ (~isFile(fs, absolutePath) /\ ~isDirectory(fs, absolutePath))))

\* Every file the invocation before reported as Minified is reported as
\* No Change by this one.
MinifiedBeforeUnchangedNow ==
    \A i \in DOMAIN prevResults :
        prevResults[i].status = "Minified" =>
            \E j \in DOMAIN results :
                /\ results[j].filePath = prevResults[i].filePath
                /\ results[j].status = "No Change"

C8_SizeAccounting ==
    (last.called /\ ~last.threw) =>
        /\ last.result.reduction = last.result.originalSize - last.result.minifiedSize
        /\ last.result.originalSize = 0 => last.result.reductionPercent = 0

\* images/
ImagesSlash == <<"i", "m", "a", "g", "e", "s", "/">>

\* Whether the pattern is among the patterns of the last isIgnored call.
HasPattern(pattern) ==
    \E k \in DOMAIN ign.ignorePatterns : ign.ignorePatterns[k] = pattern

\* C9: with the pattern images/ among the ignore patterns, isIgnored is true
\* for the directory images and for the file images/icon.png.
C9_DirectoryPatternCoverage ==
    (ign.called /\ HasPattern(ImagesSlash) /\ ign.filePath \in {ImagesDir, IconPng}) =>
        ign.result

\* The rule of C10: the path is not the base directory and some pattern p of
\* the merged set matches the relative path, or p/** matches the relative
\* path followed by /**.
MatchesWithContents(filePath, ignorePatterns, baseDir) ==
    \E relativePath \in {replaceBackslashes(pathRelative(baseDir, filePath))} :
        /\ relativePath # <<>>
        /\ relativePath # <<".">>
        /\ \E pattern \in {allPatterns(ignorePatterns)[k] :
                             k \in DOMAIN allPatterns(ignorePatterns)} :
              \/ minimatch(relativePath, pattern)
              \/ minimatch(relativePath \o <<"/", "*", "*">>, pattern \o <<"/", "*", "*">>)

\* C10: isIgnored is true exactly when the path is not the base directory
\* and some pattern p of the merged set matches the relative path directly
\* or p/** matches the relative path followed by /**.
C10_IgnoredIffMatches ==
    ign.called =>
        (ign.result <=> MatchesWithContents(ign.filePath, ign.ignorePatterns, ign.baseDir))


\* **
MatchAll == <<"*", "*">>

\* C11: isIgnored(base, S, base) is false for every pattern list S, and the
\* traversal of the base directory reads the directory.
C11_RootNeverIgnored ==
    (ign.called /\ ign.filePath = ign.baseDir) =>
        /\ ~ign.result
        /\ enterDirectory(fs, ign.baseDir,
                          Options(TRUE, ign.ignorePatterns, <<>>, FALSE, <<>>, FALSE,
                                  ign.baseDir),
                          <<>>)
           = <<[directory |-> ign.baseDir, files |-> readdir(fs, ign.baseDir).files]>>

\* C11: isIgnored was called on the base directory with the pattern **,
\* which matches every other path of the tree.
C11_Witness ==
    /\ ign.called
    /\ ign.filePath = ign.baseDir
    /\ HasPattern(MatchAll)
    /\ ~ign.result
    /\ isIgnored(AppJs, ign.ignorePatterns, ign.baseDir)
    /\ isIgnored(ImagesDir, ign.ignorePatterns, ign.baseDir)


\* Whether the path is beneath the directory.
Beneath(p, directory) == StartsWith(p, directory \o <<"/">>)

\* Whether the walker, started on the input directory, reaches the entries
\* of every directory from the input directory down to the path: each is a
\* directory it can read and, below the input directory, does not ignore.
Traversed(p) ==
    /\ Beneath(p, absolutePath)
    /\ \A a \in {Ancestors(p)[k] : k \in 1..(Len(Ancestors(p)) - 1)} :
          (a = absolutePath \/ Beneath(a, absolutePath)) =>
              /\ isDirectory(fs, a)
              /\ fs[a].r
              /\ a = absolutePath
                 \/ ~isIgnored(a, options.ignorePatterns, options.basePath)

\* The results of the invocation that are about the file.
ResultsFor(p) == {k \in DOMAIN results : results[k].filePath = pathRelative(cwd, p)}

\* Each traversed file of a supported extension that is not ignored has one
\* result, each traversed file of another extension has none.
OneResultPerFile ==
    \A p \in {q \in DOMAIN fs : isFile(fs, q) /\ Traversed(q)} :
        IF isSupportedExtension(p)
        THEN ~isIgnored(p, options.ignorePatterns, options.basePath) =>
                 Cardinality(ResultsFor(p)) = 1
        ELSE ResultsFor(p) = {}

\* C12: when the command line has run on a directory, each traversed file
\* with extension .js, .css or .html that is not ignored has exactly one
\* result, and a file with another extension has none.
C12_OneResultPerFile ==
    (pc = "exited" /\ isDirectory(fs, absolutePath)) => OneResultPerFile


\* Whether the last processFile call got as far as its try block: the file
\* was not ignored, was read, and the output directory was there or made.
ReachedMinifier ==
    /\ last.called
    /\ ~ignoresFile(last.filePath, last.options)
    /\ readFile(last.before, last.filePath).ok
    /\ createOutputDir(last.before, last.options, Plan(last.filePath, last.options)).ok

\* What the minifier did in the last processFile call.
LastMinifierRun ==
    runMinifier(toLowerCase(pathExtname(last.filePath)),
                readFile(last.before, last.filePath).content, last.options,
                Plan(last.filePath, last.options).url)

\* The last processFile call wrote no content and no map.
NothingWritten ==
    /\ \A k \in DOMAIN last.ops : last.ops[k].op \notin {"writeFile", "writeMap"}
    /\ FilesOf(fs) = FilesOf(last.before)

\* C13: when the minifier rejects the content, processFile returns an Error
\* result with the minifier's message, every file has the content it had,
\* no output or map file is written, and a traversal has the result and
\* goes on.
C13_MinifyFailure ==
    (/\ last.called
     /\ isFile(last.before, last.filePath)
     /\ minifierRejects(last.before[last.filePath].content.code)
     /\ ReachedMinifier
     /\ LastMinifierRun.threw) =>
        /\ ~last.threw
        /\ last.result.status = "Error"
        /\ last.result.error = "minify failed"
        /\ ~last.result.sourceMapGenerated
        /\ NothingWritten
        /\ isDirectory(fs, absolutePath) =>
              /\ pc = "walk"
              /\ stack # <<>>
              /\ results # <<>> /\ Last(results) = last.result

\* C13: in a traversal that writes to an output directory with source maps,
\* the minifier has rejected a file and entries are left to walk.
C13_Witness ==
    /\ ReachedMinifier
    /\ LastMinifierRun.threw
    /\ last.filePath = BadJs
    /\ last.options.outputDir # <<>>
    /\ last.options.sourceMap
    /\ ~last.options.dryRun
    /\ pc = "walk"
    /\ top.files # <<>>


\* Whether the path, relative to baseDir, matches a default ignore pattern.
MatchesDefault(filePath, baseDir) ==
    \E relativePath \in {replaceBackslashes(pathRelative(baseDir, filePath))} :
        /\ relativePath # <<>>
        /\ \E k \in DOMAIN DEFAULT_IGNORE_PATTERNS :
              patternIgnores(relativePath, DEFAULT_IGNORE_PATTERNS[k])

\* C14: whatever the options, with or without options.ignorePatterns, a
\* file whose relative path matches a default pattern is ignored by
\* processFile.
C14_DefaultsAlwaysApplied ==
    (last.called /\ MatchesDefault(last.filePath, last.options.basePath)) =>
        /\ last.result.status = "Ignored"
        /\ last.ops = <<>>


\* /w/src/build
BuildDir == <<"/", "w", "/", "s", "r", "c", "/", "b", "u", "i", "l", "d">>

\* /w/src/build/index.html
BuildIndexHtml == <<"/", "w", "/", "s", "r", "c", "/", "b", "u", "i", "l", "d", "/", "i", "n", "d", "e", "x", ".", "h", "t", "m", "l">>

\* build/ and !build/index.html
BuildButIndex ==
    << <<"b", "u", "i", "l", "d", "/">>,
       <<"!", "b", "u", "i", "l", "d", "/", "i", "n", "d", "e", "x", ".", "h", "t", "m", "l">> >>

\* C15: with the patterns build/ and !build/index.html the directory build
\* is ignored, build/index.html is not, and a path outside build that
\* matches no other pattern is not.
C15_NegatedPatterns ==
    (ign.called /\ ign.ignorePatterns = BuildButIndex) =>
        /\ ign.filePath = BuildDir => ign.result
        /\ ign.filePath = BuildIndexHtml => ~ign.result
        /\ ign.filePath \in {AppJs, ImagesDir, IconPng, PicHtml} => ~ign.result


\* Whether the last processFile call got as far as planning its output
\* path: the file was not ignored and was read.
ReachedPlanning ==
    /\ last.called
    /\ ~ignoresFile(last.filePath, last.options)
    /\ readFile(last.before, last.filePath).ok

\* The last segment of options.outputDir.
LastSegment(outputDir) == Last(Split(outputDir, "/"))

\* C16: with an outputDir whose last segment contains * and has no
\* extension, processFile does not fail, gives the output the input's file
\* name and warns.
C16_MalformedPatternWarns ==
    ( /\ ReachedPlanning
      /\ last.options.outputDir # <<>>
      /\ Includes(LastSegment(last.options.outputDir), "*")
      /\ pathExtname(LastSegment(last.options.outputDir)) = <<>> ) =>
        /\ ~last.threw
        /\ pathBasename(last.result.outputFilePath) = pathBasename(last.filePath)
        /\ last.warned


\* /out/*.min.js
AbsoluteMinPattern == <<"/", "o", "u", "t", "/", "*", ".", "m", "i", "n", ".", "j", "s">>

\* /out
OutDir == <<"/", "o", "u", "t">>

\* The absolute output path of the last processFile call.
LastOutputPath == pathResolve(cwd, last.result.outputFilePath)

\* The last call's input path relative to options.basePath.
LastRelativePath == pathRelative(last.options.basePath, last.filePath)

\* C17: with the absolute outputDir /out/*.min.js the output file is in the
\* directory /out joined with the input's subdirectory relative to basePath.
C17_AbsoluteRenamePattern ==
    (ReachedPlanning /\ last.options.outputDir = AbsoluteMinPattern /\ ~last.threw) =>
        pathDirname(LastOutputPath) = pathJoin(<<OutDir, pathDirname(LastRelativePath)>>)


\* The absolute form of options.outputDir.
AbsoluteOutputDir(outputDir) ==
    IF isAbsolute(outputDir) THEN outputDir ELSE cwd \o <<"/">> \o outputDir

\* dist/images/pic.html
DistImagesPicHtml == <<"d", "i", "s", "t", "/", "i", "m", "a", "g", "e", "s", "/", "p", "i", "c", ".", "h", "t", "m", "l">>

\* C18: with an outputDir whose last segment has no *, the output path is
\* the resolved outputDir followed by the input's path relative to basePath:
\* the subdirectory and the file name are kept.
C18_LiteralOutputDir ==
    ( /\ ReachedPlanning
      /\ last.options.outputDir # <<>>
      /\ ~Includes(LastSegment(last.options.outputDir), "*")
      /\ ~last.threw ) =>
        /\ LastOutputPath
           = AbsoluteOutputDir(last.options.outputDir) \o <<"/">> \o LastRelativePath
        /\ pathBasename(LastOutputPath) = pathBasename(last.filePath)

\* C18: a file of a subdirectory was minified into the literal directory
\* dist, and is at dist/images/pic.html in the file system.
C18_Witness ==
    /\ ReachedPlanning
    /\ last.options.outputDir = <<"d", "i", "s", "t">>
    /\ last.filePath = PicHtml
    /\ last.result.status = "Minified"
    /\ last.result.outputFilePath = DistImagesPicHtml
    /\ isFile(fs, cwd \o <<"/">> \o DistImagesPicHtml)


\* The base name without its extension.
Stem(name) == SubSeq(name, 1, Len(name) - Len(pathExtname(name)))

\* The extension a rename pattern's last segment gives: from its first ".".
PatternExtension(segment) == SubSeq(segment, IndexOf(segment, "."), Len(segment))

\* The directory the parent segments of outputDir name.
ParentSegments(outputDir) ==
    pathResolve(cwd, JoinWith(Front(Split(outputDir, "/")), <<"/">>))

\* Whether the last call's outputDir is a rename pattern: its last segment
\* starts with * and has an extension.
LastIsRename ==
    /\ last.options.outputDir # <<>>
    /\ StartsWith(LastSegment(last.options.outputDir), <<"*">>)
    /\ pathExtname(LastSegment(last.options.outputDir)) # <<>>

\* The rename rule for the file name of the last call's output.
RenamedFileName ==
    pathBasename(LastOutputPath)
    = Stem(pathBasename(last.filePath))
      \o PatternExtension(LastSegment(last.options.outputDir))

\* The rename rule for the directory of the last call's output.
RenamedDirectory ==
    pathDirname(LastOutputPath)
    = pathJoin(<<ParentSegments(last.options.outputDir), pathDirname(LastRelativePath)>>)

\* C19: when outputDir's last segment starts with * and has an extension E,
\* the output's file name is the input's base name without its extension,
\* in whatever letter case, followed by E, and its directory is outputDir's
\* parent segments joined with the input's subdirectory.
C19_RenameRule ==
    (ReachedPlanning /\ LastIsRename /\ ~last.threw) =>
        RenamedFileName /\ RenamedDirectory


\* The content the last processFile call read.
LastOriginalContent == readFile(last.before, last.filePath).content

\* C20: when the minified content equals the original, processFile returns
\* No Change and writes no content and no map, with or without dryRun and
\* outputDir.
C20_NoChangeWritesNothing ==
    ( /\ ReachedMinifier
      /\ ~LastMinifierRun.threw
      /\ LastMinifierRun.content = LastOriginalContent ) =>
        /\ ~last.threw
        /\ last.result.status = "No Change"
        /\ ~last.result.sourceMapGenerated
        /\ NothingWritten

\* C20: an already minified file was processed with an output directory and
\* without dryRun; the minifier ran and returned it as it was, and the
\* output directory holds no copy of it.
C20_Witness ==
    /\ ReachedMinifier
    /\ last.filePath = LibJs
    /\ last.options.outputDir = <<"d", "i", "s", "t">>
    /\ ~last.options.dryRun
    /\ LastMinifierRun.minified
    /\ LastMinifierRun.content = LastOriginalContent
    /\ last.result.status = "No Change"
    /\ isDirectory(fs, DistDir)
    /\ ~exists(fs, DistDir \o <<"/", "l", "i", "b", ".", "j", "s">>)


IgnoredDirectories ==
    {d \in DOMAIN fs :
        /\ isDirectory(fs, d)
        /\ Beneath(d, absolutePath)
        /\ isIgnored(d, options.ignorePatterns, options.basePath)}

\* Whether the path is the directory or beneath it.
Within(p, directory) == p = directory \/ Beneath(p, directory)

\* C22: in a traversal, an ignored directory is not enumerated and not
\* recursed into: no frame of the walk is in its subtree, no processFile
\* call reads or writes there, and no result is about a file there.
C22_IgnoredDirectorySkipped ==
    (pc \in {"walk", "exited"} /\ isDirectory(fs, absolutePath)) =>
        \A d \in IgnoredDirectories :
            /\ \A k \in DOMAIN stack : ~Within(stack[k].directory, d)
            /\ \A k \in DOMAIN results :
                  ~Beneath(pathResolve(cwd, results[k].filePath), d)
            /\ last.called =>
                  /\ ~Beneath(last.filePath, d)
                  /\ \A k \in DOMAIN last.ops : ~Within(last.ops[k].path, d)

\* C22: a traversal that ignores the directory images is over; the
\* directory holds a file of a supported extension that no pattern matches
\* and that is as it was.
C22_Witness ==
    /\ pc = "exited"
    /\ exitCode = 0
    /\ isDirectory(fs, absolutePath)
    /\ ImagesDir \in IgnoredDirectories
    /\ fs[ImagesDir].r
    /\ ~isIgnored(PicHtml, options.ignorePatterns, options.basePath)
    /\ fs[PicHtml].content = BaseTree[PicHtml].content
    /\ Len(results) > 3
    /\ ~options.dryRun


\* The paths of the maps the last processFile call wrote.
MapsWritten ==
    {last.ops[k].path : k \in {j \in DOMAIN last.ops :
                                 last.ops[j].op = "writeMap" /\ last.ops[j].ok}}

\* .map
MapSuffix == <<".", "m", "a", "p">>

\* C23: a map is written to resolve(dirname(input), sourceMapDir) when
\* sourceMapDir is given and to the directory of the output file otherwise,
\* its name is the output's file name followed by .map, and the URL in the
\* output is the map's path relative to the output's directory.
C23_SourceMapPath ==
    last.called =>
        \A map \in MapsWritten :
            /\ pathDirname(map)
               = IF last.options.sourceMapDir # <<>>
                 THEN pathResolve(pathDirname(last.filePath), last.options.sourceMapDir)
                 ELSE pathDirname(LastOutputPath)
            /\ pathBasename(map) = pathBasename(LastOutputPath) \o MapSuffix
            /\ isFile(fs, LastOutputPath)
            /\ fs[LastOutputPath].content.url
               = pathRelative(pathDirname(LastOutputPath), map)
            /\ ~Includes(fs[LastOutputPath].content.url, "\\")

\* /w/src/maps/app.js.map
SrcMapsAppJsMap == <<"/", "w", "/", "s", "r", "c", "/", "m", "a", "p", "s", "/", "a", "p", "p", ".", "j", "s", ".", "m", "a", "p">>

\* ../src/maps/app.js.map
UpSrcMapsAppJsMap == <<".", ".", "/", "s", "r", "c", "/", "m", "a", "p", "s", "/", "a", "p", "p", ".", "j", "s", ".", "m", "a", "p">>

\* C23: app.js was minified into dist with sourceMapDir maps: the map is
\* /w/src/maps/app.js.map and dist/app.js refers to ../src/maps/app.js.map.
C23_Witness ==
    /\ last.called
    /\ last.filePath = AppJs
    /\ last.options.outputDir = <<"d", "i", "s", "t">>
    /\ last.options.sourceMapDir = <<"m", "a", "p", "s">>
    /\ MapsWritten = {SrcMapsAppJsMap}
    /\ isFile(fs, SrcMapsAppJsMap)
    /\ fs[LastOutputPath].content.url = UpSrcMapsAppJsMap


\* The last call was for a .js or .css file (the extension in lower case).
LastHasMapMinifier ==
    toLowerCase(pathExtname(last.filePath)) \in {<<".", "j", "s">>, <<".", "c", "s", "s">>}

\* C24: a map is written exactly when sourceMapGenerated is true, and that is
\* exactly when sourceMap is set, dryRun is not, the file is .js or .css and
\* the status is Minified; a processFile that rejects writes no map.
C24_SourceMapGenerated ==
    last.called =>
        /\ last.threw => MapsWritten = {}
        /\ ~last.threw =>
            /\ last.result.sourceMapGenerated <=> MapsWritten # {}
            /\ last.result.sourceMapGenerated <=>
                   /\ last.options.sourceMap
                   /\ ~last.options.dryRun
                   /\ LastHasMapMinifier
                   /\ last.result.status = "Minified"
            /\ \A map \in MapsWritten :
                   /\ isFile(fs, map)
                   /\ fs[map].content = Text("sourcemap", NoUrl)

\* C24: b.css was minified with sourceMap set: the flag is set and the map
\* is on disk.
C24_Witness ==
    /\ last.called
    /\ ~last.threw
    /\ last.filePath = BCss
    /\ last.options.sourceMap
    /\ last.result.status = "Minified"
    /\ last.result.sourceMapGenerated
    /\ MapsWritten # {}
    /\ \A map \in MapsWritten : isFile(fs, map) /\ ~exists(last.before, map)


RECURSIVE DepthFirst(_, _, _)
RECURSIVE DepthFirstEntries(_, _, _, _)
\* The supported files of a tree below a directory in depth-first order of
\* enumeration: the entries of a directory in the order readdir gives them,
\* a subdirectory's files in the place of the subdirectory, nothing for an
\* ignored or unreadable directory.
DepthFirst(tree, directory, opts) ==
    IF opts.hasIgnorePatterns /\ isIgnored(directory, opts.ignorePatterns, opts.basePath)
    THEN <<>>
    ELSE Bind(readdir(tree, directory), LAMBDA rd :
            IF rd.ok THEN DepthFirstEntries(tree, directory, rd.files, opts) ELSE <<>>)

DepthFirstEntries(tree, directory, files, opts) ==
    IF files = <<>> THEN <<>>
    ELSE Bind(pathJoin(<<directory, Head(files)>>), LAMBDA p :
            (IF isDirectory(tree, p) THEN DepthFirst(tree, p, opts)
             ELSE IF exists(tree, p) /\ isSupportedExtension(p) THEN <<p>>
             ELSE <<>>)
            \o DepthFirstEntries(tree, directory, Tail(files), opts))

IsPrefix(s, t) == Len(s) <= Len(t) /\ SubSeq(t, 1, Len(s)) = s

\* The files of the results, in the order of the results.
ResultPaths == [k \in DOMAIN results |-> pathResolve(cwd, results[k].filePath)]

\* The frames of the stack are one chain of calls: each frame's directory is
\* an entry of the frame beneath it.
OneChain ==
    \A k \in 2..Len(stack) : pathDirname(stack[k].directory) = stack[k - 1].directory

RECURSIVE SegmentsBefore(_, _)
\* Two paths by their segments: at the first segment in which they differ,
\* the first path's is enumerated before the second's.
SegmentsBefore(a, b) ==
    /\ a # <<>>
    /\ b # <<>>
    /\ IF Head(a) = Head(b) THEN SegmentsBefore(Tail(a), Tail(b))
       ELSE NameLess(Head(a), Head(b))

\* The file p is met before the file q by a walk that takes a directory's
\* entries in the order readdir gives them and drains each subdirectory
\* where it stands.
WalkedBefore(p, q) == SegmentsBefore(Segments(p), Segments(q))

\* C25: one flow walks the tree: the stack is one chain of nested calls, the
\* last processFile call is the one whose result was pushed last, and the
\* results list the files in depth-first enumeration order: at every point
\* of the walk each result's file comes before the next one's in that
\* order, and when the traversal is over the results are a prefix of the
\* order, the whole of it when the traversal has returned.
C25_DepthFirstOrder ==
    (pc \in {"walk", "exited"} /\ isDirectory(fs, absolutePath)) =>
        /\ OneChain
        /\ \A k \in 1..(Len(results) - 1) :
               WalkedBefore(ResultPaths[k], ResultPaths[k + 1])
        /\ (last.called /\ ~last.threw) =>
               /\ results # <<>>
               /\ results[Len(results)] = last.result
        /\ (pc = "exited" \/ stack = <<>>) =>
               \E order \in {DepthFirst(fs, absolutePath, options)} :
                   /\ IsPrefix(ResultPaths, order)
                   /\ (pc = "walk" \/ exitCode = 0) => ResultPaths = order

\* C25: the traversal of src has returned with the files of src/images
\* between those of src that come before and after images.
C25_Witness ==
    /\ pc = "exited"
    /\ exitCode = 0
    /\ isDirectory(fs, absolutePath)
    /\ ~isIgnored(ImagesDir, options.ignorePatterns, options.basePath)
    /\ fs[ImagesDir].r
    /\ \E i, j, k \in DOMAIN results :
          /\ i < j /\ j < k
          /\ ResultPaths[i] = AppJs
          /\ ResultPaths[j] = PicHtml
          /\ ResultPaths[k] = LibJs


\* C26: two distinct files of one traversal are never given the same output
\* path.
C26_OutputPathsInjective ==
    \A i, j \in DOMAIN results :
        (/\ i < j
         /\ results[i].filePath # results[j].filePath
         /\ results[i].outputFilePath # NullPath
         /\ results[j].outputFilePath # NullPath)
        => results[i].outputFilePath # results[j].outputFilePath

\* C27: no file a traversal wrote as minified output is afterwards processed
\* as an input of the same traversal.
C27_NoSelfReprocessing ==
    \A i, j \in DOMAIN results :
        (i < j /\ results[i].status = "Minified")
        => pathResolve(cwd, results[j].filePath)
           # pathResolve(cwd, results[i].outputFilePath)


\* C30: every traversal of a writable tree eventually returns to the action,
\* which completes.
C30_TraversalReturns == <>(pc = "exited" /\ exitCode = 0)


\* The writes of content and of maps the last processFile call carried out.
WritesDone ==
    {k \in DOMAIN last.ops : last.ops[k].op \in {"writeFile", "writeMap"} /\ last.ops[k].ok}

\* C28: a processFile call that returns status Error has written no content
\* and no map: the files of the tree are those it started on.
C28_ErrorLeavesDiskUnchanged ==
    (last.called /\ ~last.threw /\ last.result.status = "Error") =>
        /\ WritesDone = {}
        /\ FilesOf(fs) = FilesOf(last.before)

\* The statuses of a returned FileResult.
ReturnedStatuses == {"Ignored", "Error", "No Change", "Minified", "[DRY RUN] Minified"}

\* C29: every result processFile returns has one of the five statuses, never
\* the initial Skipped, and its error is set exactly when the status is Error.
C29_StatusAndError ==
    (last.called /\ ~last.threw) =>
        /\ last.result.status \in ReturnedStatuses
        /\ last.result.error # NullError <=> last.result.status = "Error"

\* C29: processFile was called on c.txt, which no minifier takes, and
\* returned No Change without an error.
C29_Witness ==
    /\ last.called
    /\ ~last.threw
    /\ last.filePath = CTxt
    /\ ~ignoresFile(last.filePath, last.options)
    /\ last.result.status = "No Change"
    /\ last.result.error = NullError

====
